---- MODULE Spec2Model ----
(***************************************************************************)
(* The run controller and log feed of the Home component                   *)
(* (src/agentic-agent/src/app/page.tsx).                                   *)
(*                                                                         *)
(* State: the three React state cells (goalInput, agentState, isRunning),  *)
(* the ref loopRef, the memoised orderedLogs, and the frames of the        *)
(* startAgent invocations that are suspended at an await: each holds its   *)
(* position (pc), its local variable currentState and bookkeeping about    *)
(* what the invocation has done so far.  A frame is freed when its         *)
(* invocation returns.  published is the value last handed to              *)
(* setAgentState.                                                          *)
(*                                                                         *)
(* JavaScript runs handlers and promise continuations to completion, so    *)
(* each action is one handler or one continuation between two awaits.      *)
(* The timers of delay(150) and delay(650) are not given durations: a      *)
(* pending timer may fire at any later moment, which covers every order    *)
(* in which the real timers can expire.                                    *)
(* A state cell written by a continuation is taken as rendered before the  *)
(* next event, so a handler reads the isRunning that was last set.         *)
(*                                                                         *)
(* initializeAgentState, stepAgent and AgentConstants come from            *)
(* "@/lib/agent", which page.tsx imports; they are modelled by what the    *)
(* specification says of them, the decision logic left open as a choice    *)
(* of outcome.  Only the AgentState fields page.tsx's control flow and log *)
(* feed read are kept (iteration, logs, isComplete, isStalled); the goal,  *)
(* tasks, assumptions, metrics and summary are rendered and never tested.  *)
(***************************************************************************)
EXTENDS Integers, Sequences, FiniteSets, TLC

VARIABLES goalInput, agentState, isRunning, loopRef, orderedLogs, runs,
          published

vars == <<goalInput, agentState, isRunning, loopRef, orderedLogs, runs,
          published>>

-----------------------------------------------------------------------------
(* Bounds of the model *)

\* startAgent invocations suspended at an await at the same time
MaxRuns == 2
\* length of the text typed into the goal textarea
MaxGoalLen == 2
\* log timestamps range over 0..MaxTimestamp
MaxTimestamp == 1
\* length of the log collections handed to the log feed
MaxLogs == 4

(* AgentConstants.MAX_ITERATIONS of "@/lib/agent" *)
MAX_ITERATIONS == 2

-----------------------------------------------------------------------------
(* Goal text: a sequence of characters, " " a whitespace character *)

Whitespace == {" "}
Chars == {" ", "g"}

RECURSIVE SeqsUpTo(_, _)
SeqsUpTo(S, n) ==
  IF n = 0 THEN {<<>>}
  ELSE LET shorter == SeqsUpTo(S, n - 1)
       IN shorter \cup {Append(s, c) : s \in {t \in shorter : Len(t) = n - 1}, c \in S}

GoalTexts == SeqsUpTo(Chars, MaxGoalLen)

SetMin(S) == CHOOSE x \in S : \A y \in S : x <= y
SetMax(S) == CHOOSE x \in S : \A y \in S : y <= x

\* the text as typed, not trimmed
NoTrim(s) == s

\* String.prototype.trim: the text without leading and trailing whitespace
Trim(s) ==
  LET keep == {i \in 1..Len(s) : s[i] \notin Whitespace}
  IN IF keep = {} THEN <<>> ELSE SubSeq(s, SetMin(keep), SetMax(keep))

Range(seq) == {seq[i] : i \in 1..Len(seq)}

Occurrences(seq, e) == Cardinality({i \in 1..Len(seq) : seq[i] = e})

\* the text is empty or whitespace-only
IsBlank(s) == \A i \in 1..Len(s) : s[i] \in Whitespace

-----------------------------------------------------------------------------
(* The agent library, as the specification describes it *)

NoState == [none |-> TRUE]

Timestamps == 0..MaxTimestamp

\* what the opaque decision logic decides in one call
Outcomes == [complete : BOOLEAN, stalled : BOOLEAN, timestamp : Timestamps]

\* the outcomes of calls made while the clock reads 0
OutcomesAtZero == {o \in Outcomes : o.timestamp = 0}

\* iteration 0, no logs
initializeAgentState(goal, o) ==
  [iteration |-> 0, logs |-> <<>>,
   isComplete |-> o.complete, isStalled |-> o.stalled]

\* a new snapshot: iteration raised by one, one log appended
stepAgent(state, o) ==
  [iteration |-> state.iteration + 1,
   logs |-> Append(state.logs, [id |-> state.iteration + 1, timestamp |-> o.timestamp]),
   isComplete |-> o.complete,
   isStalled |-> o.stalled]

-----------------------------------------------------------------------------
(* The log feed *)

\* the comparator (a, b) => b.timestamp - a.timestamp
CompareDescending(a, b) == b.timestamp - a.timestamp

\* the comparator (a, b) => a.timestamp - b.timestamp
CompareLogs(a, b) == a.timestamp - b.timestamp

\* Array.prototype.sort with CompareLogs: stable, b goes before a only when
\* the comparator is positive
RECURSIVE InsertSorted(_, _)
InsertSorted(sorted, x) ==
  IF sorted = <<>> THEN <<x>>
  ELSE LET last == sorted[Len(sorted)]
       IN IF CompareLogs(last, x) > 0
          THEN Append(InsertSorted(SubSeq(sorted, 1, Len(sorted) - 1), x), last)
          ELSE Append(sorted, x)

RECURSIVE SortLogs(_)
SortLogs(logs) ==
  IF logs = <<>> THEN <<>>
  ELSE InsertSorted(SortLogs(SubSeq(logs, 1, Len(logs) - 1)), logs[Len(logs)])

\* the useMemo of orderedLogs, recomputed when agentState changes; sort works
\* on the copy [...agentState.logs], so the state object is left as it was
Render(state) ==
  [agentState |-> state,
   orderedLogs |-> IF state = NoState THEN <<>> ELSE SortLogs(state.logs)]

-----------------------------------------------------------------------------
(* The run controller *)

\* the break conditions with the ceiling test written > instead of >=
ShouldBreakAboveCeiling(state) ==
  \/ state.isComplete \/ state.isStalled
  \/ state.iteration > MAX_ITERATIONS

\* the break conditions without the stall flag
ShouldBreakIgnoringStall(state) ==
  \/ state.isComplete
  \/ state.iteration >= MAX_ITERATIONS

\* the two break conditions at the end of the loop body
ShouldBreak(state) ==
  \/ state.isComplete \/ state.isStalled
  \/ state.iteration >= MAX_ITERATIONS

\* a cleanup that clears the ref and leaves the isRunning state as it is
ExitFlagsKeepRunning == [loopRef |-> FALSE, isRunning |-> isRunning]

\* the two assignments after the loop
ExitFlags == [loopRef |-> FALSE, isRunning |-> FALSE]

Slots == 1..MaxRuns

Free == [pc |-> "free"]

\* the frame of a startAgent invocation suspended at its first await
NewRun(initial) ==
  [pc |-> "settle", currentState |-> initial, steps |-> 0,
   stopped |-> FALSE, publishedAfterStop |-> 0]

\* disabled={isRunning} of the submit button and of the textarea,
\* disabled={!isRunning} of the stop button
SubmitDisabled == isRunning
GoalDisabled == isRunning
StopDisabled == ~isRunning

\* the invocations that have not returned (nor thrown)
Alive == {r \in Slots : runs[r].pc \in {"settle", "delay"}}

FreeSlots == {r \in Slots : runs[r] = Free}

\* setAgentState followed by the re-render that recomputes orderedLogs
Publish(state) ==
  /\ published' = state
  /\ agentState' = Render(state).agentState
  /\ orderedLogs' = Render(state).orderedLogs

\* startAgent up to its first await
StartAgent(goal) ==
  IF Trim(goal) = <<>>
  THEN UNCHANGED <<agentState, orderedLogs, published, isRunning, loopRef, runs>>
  ELSE /\ FreeSlots # {}
       /\ \E o \in OutcomesAtZero :
            LET initial == initializeAgentState(goal, o)
            IN /\ Publish(initial)
               /\ runs' = [runs EXCEPT ![SetMin(FreeSlots)] = NewRun(initial)]
       /\ loopRef' = FALSE
       /\ UNCHANGED isRunning

\* the form's onSubmit
HandleSubmit ==
  /\ UNCHANGED goalInput
  /\ IF isRunning
     THEN UNCHANGED <<agentState, orderedLogs, published, isRunning, loopRef, runs>>
     ELSE LET trimmedGoal == Trim(goalInput)
          IN IF trimmedGoal = <<>>
             THEN UNCHANGED <<agentState, orderedLogs, published, isRunning, loopRef, runs>>
             ELSE StartAgent(trimmedGoal)

\* the textarea's onChange; the textarea is disabled while isRunning
SetGoalInput(text) ==
  /\ ~GoalDisabled
  /\ text # goalInput
  /\ goalInput' = text
  /\ UNCHANGED <<agentState, orderedLogs, published, isRunning, loopRef, runs>>

\* delay(150) resolves: the flags are set and the loop is entered
SettleDone(r) ==
  /\ runs[r].pc = "settle"
  /\ loopRef' = TRUE
  /\ isRunning' = TRUE
  /\ runs' = [runs EXCEPT ![r].pc = "delay"]
  /\ UNCHANGED <<goalInput, agentState, orderedLogs, published>>

\* delay(650) resolves: one loop body, then the loop test or the cleanup
StepDone(r, o) ==
  /\ runs[r].pc = "delay"
  /\ LET next == stepAgent(runs[r].currentState, o)
     IN /\ Publish(next)
        /\ IF ShouldBreak(next) \/ ~loopRef
           THEN /\ loopRef' = ExitFlags.loopRef
                /\ isRunning' = ExitFlags.isRunning
                /\ runs' = [runs EXCEPT ![r] = Free]
           ELSE /\ UNCHANGED <<loopRef, isRunning>>
                /\ runs' = [runs EXCEPT
                              ![r].currentState = next,
                              ![r].steps = @ + 1,
                              ![r].publishedAfterStop =
                                 IF runs[r].stopped THEN @ + 1 ELSE @]
  /\ UNCHANGED goalInput

\* delay(650) resolves and stepAgent throws: the promise of startAgent rejects
StepThrows(r) ==
  /\ runs[r].pc = "delay"
  /\ runs' = [runs EXCEPT ![r].pc = "threw"]
  /\ UNCHANGED <<goalInput, agentState, orderedLogs, published, isRunning, loopRef>>

\* the stop button's onClick; the button is disabled while ~isRunning
StopAgent ==
  /\ ~StopDisabled
  /\ loopRef' = FALSE
  /\ isRunning' = FALSE
  /\ runs' = [r \in Slots |->
                IF runs[r].pc \in {"delay", "threw"}
                THEN [runs[r] EXCEPT !.stopped = TRUE] ELSE runs[r]]
  /\ UNCHANGED <<goalInput, agentState, orderedLogs, published>>

\* the page as first rendered
Init ==
  /\ goalInput = <<"g">>
  /\ agentState = NoState
  /\ isRunning = FALSE
  /\ loopRef = FALSE
  /\ orderedLogs = <<>>
  /\ published = NoState
  /\ runs = [r \in Slots |-> Free]

Next ==
  \/ HandleSubmit
  \/ \E text \in GoalTexts : SetGoalInput(text)
  \/ \E r \in Slots : SettleDone(r)
  \/ \E r \in Slots, o \in OutcomesAtZero : StepDone(r, o)
  \/ StopAgent

Spec == Init /\ [][Next]_vars

\* the pending timer of the invocation in slot r fires
TimerFires(r) == SettleDone(r) \/ \E o \in OutcomesAtZero : StepDone(r, o)

\* the page with its goal text left as first rendered: submits, stops and
\* timers in every order, each pending timer firing in the end
NextGoalKept ==
  \/ HandleSubmit
  \/ \E r \in Slots : TimerFires(r)
  \/ StopAgent

FairSpec ==
  Init /\ [][NextGoalKept]_vars /\ \A r \in Slots : WF_vars(TimerFires(r))

\* the same page with a stepAgent that may throw
NextThrowing == Next \/ \E r \in Slots : StepThrows(r)

SpecThrowing == Init /\ [][NextThrowing]_vars

-----------------------------------------------------------------------------
(* The log feed on its own: agent states whose logs arrive with any        *)
(* timestamps, published one after the other                               *)

FeedStart ==
  /\ agentState = NoState
  /\ \E o \in OutcomesAtZero : Publish(initializeAgentState(Trim(goalInput), o))
  /\ UNCHANGED <<goalInput, isRunning, loopRef, runs>>

FeedStep ==
  /\ agentState # NoState
  /\ Len(agentState.logs) < MaxLogs
  /\ \E o \in Outcomes : Publish(stepAgent(agentState, o))
  /\ UNCHANGED <<goalInput, isRunning, loopRef, runs>>

FeedNext == FeedStart \/ FeedStep

FeedSpec == Init /\ [][FeedNext]_vars

-----------------------------------------------------------------------------
(* The claims *)

\* a state on which the loop is to stop
StopPredicate(state) ==
  state.isComplete \/ state.isStalled \/ state.iteration >= MAX_ITERATIONS

\* the run in slot r makes a step in this transition: its loop body ran, and
\* the loop went on or exited
Stepped(r) ==
  /\ runs[r].pc = "delay"
  /\ \/ runs'[r] = Free
     \/ runs'[r].pc = "delay" /\ runs'[r].steps = runs[r].steps + 1

\* C1: at most one startAgent invocation is alive (started and not yet
\* returned) in every reachable state
C1_AtMostOneLoop == Cardinality(Alive) <= 1

\* C2: a loop that has published one state after stopAgent was called on it
\* has exited: no loop waits for a further step with a publication after its
\* stop behind it
C2_StopEndsLoop ==
  \A r \in Slots : runs[r].pc = "delay" => runs[r].publishedAfterStop = 0

\* C3: a loop waiting for its next step has called stepAgent fewer than
\* MAX_ITERATIONS times, so no loop calls it more than MAX_ITERATIONS times and
\* a loop that has called it MAX_ITERATIONS times has exited
C3_AtMostMaxIterationsSteps ==
  \A r \in Slots : runs[r].pc = "delay" => runs[r].steps < MAX_ITERATIONS

\* a loop has published iteration MAX_ITERATIONS with neither flag set and
\* has exited
C3_ExitedAtCeiling ==
  /\ published # NoState
  /\ published.iteration = MAX_ITERATIONS
  /\ ~published.isComplete /\ ~published.isStalled
  /\ Alive = {}
  /\ ~isRunning /\ ~loopRef

\* C4: a submit of an empty or whitespace-only goal leaves agentState,
\* isRunning, loopRef and the frames (no initializeAgentState, no stepAgent
\* call, no run cancelled) as they were
C4_BlankSubmitChangesNothing ==
  [][(IsBlank(goalInput) /\ HandleSubmit)
       => UNCHANGED <<agentState, orderedLogs, published, isRunning, loopRef, runs>>]_vars

\* a whitespace-only goal is in the textarea while a run is in progress and
\* the form is enabled: the submit made here is the claim's case
C4_BlankSubmitDuringRun ==
  /\ IsBlank(goalInput) /\ goalInput # <<>>
  /\ Alive # {} /\ FreeSlots # {}
  /\ ~SubmitDisabled
  /\ ENABLED HandleSubmit

\* C5: submit and textarea are disabled and stop is enabled exactly when a
\* startAgent invocation is past its blank-goal check and has not returned
C5_ButtonsFollowRun ==
  /\ Alive # {} => (SubmitDisabled /\ GoalDisabled /\ ~StopDisabled)
  /\ Alive = {} => (~SubmitDisabled /\ ~GoalDisabled /\ StopDisabled)

\* C6: the log feed is a permutation of agentState.logs in non-decreasing
\* timestamp order, agentState is the state that was published, and the feed
\* is empty when there is no agent state
C6_FeedSortedPermutation ==
  /\ agentState = published
  /\ IF agentState = NoState
     THEN orderedLogs = <<>>
     ELSE /\ Len(orderedLogs) = Len(agentState.logs)
          /\ \A e \in Range(orderedLogs) \cup Range(agentState.logs) :
               Occurrences(orderedLogs, e) = Occurrences(agentState.logs, e)
          /\ \A i \in 1..(Len(orderedLogs) - 1) :
               orderedLogs[i].timestamp <= orderedLogs[i + 1].timestamp

\* three or more logs that are out of timestamp order, and a feed that
\* differs from them
C6_UnsortedLogsReordered ==
  /\ agentState # NoState
  /\ Len(agentState.logs) >= 3
  /\ \E i, j \in 1..Len(agentState.logs) :
       i < j /\ agentState.logs[i].timestamp > agentState.logs[j].timestamp
  /\ orderedLogs # agentState.logs

\* C7, as claimed: no loop applies stepAgent to a state that satisfies a stop
\* predicate, the initial state included
C7_NeverStepsStopState ==
  [][\A r \in Slots :
       Stepped(r) => ~StopPredicate(runs[r].currentState)]_vars

\* C7, amended: no loop applies stepAgent to a state that it obtained from
\* stepAgent and that satisfies a stop predicate
C7_NeverStepsSteppedStopState ==
  [][\A r \in Slots :
       (Stepped(r) /\ runs[r].steps > 0) => ~StopPredicate(runs[r].currentState)]_vars

\* a loop has published a stalled state below the ceiling and has exited
C7_ExitedOnStall ==
  /\ published # NoState
  /\ published.isStalled /\ ~published.isComplete
  /\ 0 < published.iteration /\ published.iteration < MAX_ITERATIONS
  /\ Alive = {}

\* C8: every state published by a step is stepAgent applied to the state
\* published immediately before it
C8_EachPublishStepsPrevious ==
  [][(\E r \in Slots : Stepped(r))
       => \E o \in Outcomes : published' = stepAgent(published, o)]_vars

\* C9: every run that starts reaches a state where its loop has exited with
\* loopRef false and isRunning false, the form enabled again
C9_RunReturnsToIdle ==
  /\ \A r \in Slots : []<>(runs[r] = Free)
  /\ [][\A r \in Slots :
         (runs[r] # Free /\ runs'[r] = Free)
           => (~loopRef' /\ ~isRunning' /\ ~SubmitDisabled' /\ ~GoalDisabled')]_vars

\* a loop has exited after a step whose state satisfies no stop predicate
\* (the exit of a stopped run), the page idle again
C9_ExitedAfterStop ==
  /\ published # NoState
  /\ ~StopPredicate(published) /\ published.iteration > 0
  /\ Alive = {}
  /\ ~loopRef /\ ~isRunning

\* C10: after stepAgent threw in a run, isRunning and loopRef are true for as
\* long as stopAgent has not been called
C10_ThrowLeavesRunning ==
  \A r \in Slots :
    (runs[r].pc = "threw" /\ ~runs[r].stopped) => (isRunning /\ loopRef)

====
